---------------------------- MODULE Spec2Model ----------------------------
(***************************************************************************)
(* Model of the Articulate course URL scanner                              *)
(* (src/articulate_scanner/scanner.py, src/articulate_course_url_scanner2  *)
(* .py): the recursive traversal scan_course with its visited set and its  *)
(* accumulated result list, the concurrent verification stage              *)
(* verify_all_urls, the classification verify_url, and the command line    *)
(* run main (src/articulate_scanner/cli.py).                               *)
(*                                                                         *)
(* Strings are sequences of symbols.  A symbol is a fragment of text       *)
(* ("http", "://", "#/lessons/", " is in '", ...).  The symbols are chosen *)
(* so that no text can be cut into symbols in two ways and so that none of *)
(* the patterns the code looks for ('http', '#', '#/lessons/', '\n',       *)
(* 'rise.articulate.com', '/share/') can occur across a symbol boundary:   *)
(* every multi-character symbol holds a character that no other symbol    *)
(* holds.  Equality of sequences is then equality of the texts,            *)
(* concatenation is \o, and the code's startswith / in / split / replace   *)
(* are the corresponding operations on symbols.                            *)
(***************************************************************************)
EXTENDS Integers, Sequences, FiniteSets, TLC

VARIABLES
    web,             \* what the page renderer shows: base URL -> course
    course_url0,     \* the course URL the crawl is started with
    max_depth,       \* scan_course's max_depth argument
    visited_pages,   \* self.visited_pages
    all_results,     \* self.all_results
    stack,           \* call stack of scan_course, innermost invocation first
    scans,           \* history: the invocations that passed the visited guard
    renders,         \* history: every driver.get, in order
    skips,           \* history: the calls that returned at the visited guard
    extracted,       \* history: every url_data extract_urls_from_page returned
    max_workers,     \* verify_all_urls's max_workers argument
    vpc,             \* position of the main thread in verify_all_urls
    unique_urls,     \* verify_all_urls: unique_urls (keys in insertion order)
    futures,         \* verify_all_urls: the futures, in submission order
    verified_results,\* verify_all_urls: verified_results
    submits,         \* history: the URLs passed to executor.submit, in order
    writes,          \* history: the keys of verified_results written, in order
    argv,            \* main: args.url and args.no_verify
    cpc,             \* position of main
    driver,          \* the rendering session: "none", "open" or "quit"
    exit_code,       \* the exit status of the process, once it has exited
    response,        \* verify_url: what requests.head did
    verification     \* verify_url: what it returned, once it has returned

scanVars == <<web, course_url0, max_depth, visited_pages, all_results, stack,
              scans, renders, skips, extracted>>
verifyVars == <<max_workers, vpc, unique_urls, futures, verified_results,
                submits, writes>>
cliVars == <<argv, cpc, driver, exit_code>>
checkVars == <<response, verification>>
vars == <<web, course_url0, max_depth, visited_pages, all_results, stack,
          scans, renders, skips, extracted, max_workers, vpc, unique_urls, futures,
          verified_results, submits, writes, argv, cpc, driver, exit_code,
          response, verification>>

----------------------------------------------------------------------------
(* Bounds of the model.                                                    *)

\* max_depth ranges over 0..MaxDepthBound
MaxDepthBound == 2
\* max_workers ranges over 1..MaxWorkersBound
MaxWorkersBound == 2
\* verify_all_urls is started on result lists of at most MaxResults entries
MaxResults == 3
\* the status codes a response carries range over 0..MaxStatus
MaxStatus == 650
\* a navigation sidebar holds at most MaxNav anchors
MaxNav == 3

----------------------------------------------------------------------------
(* Text.                                                                   *)

\* symbols that begin with the character '#'
HashSyms == {"#", "#/lessons/"}
\* symbols that begin with the character '/'
SlashSyms == {"/", "/share/"}
\* symbols that begin with the character '?'
QuerySyms == {"?"}
\* symbols made of characters a URL scheme may hold
SchemeSyms == {"http", "s", "a", "b", "c"}
\* whitespace symbols
SpaceSyms == {" ", "\n"}

Range(s) == {s[i] : i \in 1..Len(s)}

\* index of the first symbol of s that is in S, Len(s)+1 when there is none
FirstIn(s, S) ==
    IF \E i \in 1..Len(s) : s[i] \in S
    THEN CHOOSE i \in 1..Len(s) : s[i] \in S /\ \A j \in 1..(i-1) : s[j] \notin S
    ELSE Len(s) + 1

RECURSIVE LStrip(_)
LStrip(s) == IF s # <<>> /\ s[1] \in SpaceSyms THEN LStrip(Tail(s)) ELSE s

RECURSIVE RStrip(_)
RStrip(s) ==
    IF s # <<>> /\ s[Len(s)] \in SpaceSyms THEN RStrip(SubSeq(s, 1, Len(s)-1)) ELSE s

\* str.strip(), and get_text(strip=True) of an element holding one text node
Strip(s) == LStrip(RStrip(s))

\* href.startswith('http')
StartsWithHttp(href) == href # <<>> /\ href[1] = "http"

\* href.startswith('#/lessons/')
StartsWithLessons(href) == href # <<>> /\ href[1] = "#/lessons/"

IsNotLessonsSym(t) == t # "#/lessons/"

\* href.replace('#/lessons/', ''): every occurrence is removed
RemoveLessons(href) == SelectSeq(href, IsNotLessonsSym)


----------------------------------------------------------------------------
(* URLs.                                                                   *)

\* the optional values of the program (None, a missing attribute or element)
\* are sequences of length 0 or 1
None == <<>>
Some(x) == <<x>>

\* urlparse(url).netloc: when the text starts with a scheme followed by
\* '://', the symbols after it up to the first '/', '?' or '#'
Netloc(url) ==
    LET p == FirstIn(url, {"://"})
    IN  IF p > 1 /\ p <= Len(url) /\ (\A j \in 1..(p-1) : url[j] \in SchemeSyms)
        THEN LET rest == SubSeq(url, p+1, Len(url))
             IN  SubSeq(rest, 1, FirstIn(rest, SlashSyms \cup QuerySyms \cup HashSyms) - 1)
        ELSE <<>>

\* urlparse(url).path: what follows the scheme and the network location, up
\* to the first '?' or '#'
Path(url) ==
    LET p == FirstIn(url, {"://"})
        hasNet == p > 1 /\ p <= Len(url) /\ (\A j \in 1..(p-1) : url[j] \in SchemeSyms)
        rest == IF hasNet
                THEN LET r == SubSeq(url, p+1, Len(url))
                     IN  SubSeq(r, FirstIn(r, SlashSyms \cup QuerySyms \cup HashSyms), Len(r))
                ELSE url
    IN  SubSeq(rest, 1, FirstIn(rest, QuerySyms \cup HashSyms) - 1)

\* urlparse(url).scheme: the text before the first ':' when it is made of
\* the characters a scheme may hold
Scheme(url) ==
    LET p == FirstIn(url, {"://"})
    IN  IF p > 1 /\ p <= Len(url) /\ (\A j \in 1..(p-1) : url[j] \in SchemeSyms)
        THEN SubSeq(url, 1, p-1)
        ELSE IF url # <<>> /\ url[1] = "mailto:" THEN <<"mailto">>
        ELSE <<>>

\* is_similar_page(url)
IsSimilarPage(url) ==
    "rise.articulate.com" \in Range(Netloc(url)) /\ "/share/" \in Range(Path(url))

\* the URL returned unchanged, fragment included
GetBaseUrlUnchanged(url) == url

\* get_base_url(url): url.split('#')[0] when '#' is in url
GetBaseUrl(url) ==
    IF \E i \in 1..Len(url) : url[i] \in HashSyms
    THEN SubSeq(url, 1, FirstIn(url, HashSyms) - 1)
    ELSE url

\* f"{href} is in '{lesson_title}'"
Display(href, lesson_title) == href \o <<" is in '">> \o lesson_title \o <<"'">>

----------------------------------------------------------------------------
(* Markup extraction.                                                      *)

\* get_lesson_title(soup): the text of h1.lesson-header__title, stripped
GetLessonTitle(page) ==
    IF page.h1 # None THEN Strip(page.h1[1]) ELSE <<"Unknown Lesson">>

\* the navigation title: text.split('\n')[0].strip() if '\n' in text else text
NavTitle(raw) ==
    LET text == Strip(raw)
    IN  IF "\n" \in Range(text)
        THEN Strip(SubSeq(text, 1, FirstIn(text, {"\n"}) - 1))
        ELSE text

\* the anchors get_lesson_links keeps: found by the marker attribute, with a
\* non-empty href that starts with '#/lessons/'
IsLessonAnchor(a) ==
    a.marker /\ a.href # None /\ a.href[1] # <<>> /\ StartsWithLessons(a.href[1])

\* get_lesson_links(soup, base_url)
GetLessonLinks(nav, base_url) ==
    LET kept == SelectSeq(nav, IsLessonAnchor)
    IN  [i \in 1..Len(kept) |->
            LET lesson_id == RemoveLessons(kept[i].href[1])
            IN  [url |-> base_url \o <<"#/lessons/">> \o lesson_id,
                 title |-> NavTitle(kept[i].text),
                 lesson_id |-> lesson_id]]

\* the anchors extract_urls_from_page keeps: an href that starts with 'http'
IsHttpAnchor(a) == a.href # None /\ StartsWithHttp(a.href[1])

\* extract_urls_from_page(soup, lesson_title)
ExtractUrlsFromPage(page, lesson_title) ==
    LET kept == SelectSeq(page.anchors, IsHttpAnchor)
    IN  [i \in 1..Len(kept) |->
            [url |-> kept[i].href[1],
             link_text |-> Strip(kept[i].text),
             lesson |-> lesson_title,
             display |-> Display(kept[i].href[1], lesson_title)]]

----------------------------------------------------------------------------
(* The rendered web: the pages the page renderer (driver.get followed by   *)
(* driver.page_source) shows.  A page is its anchors in document order and *)
(* its optional h1.lesson-header__title text.  A course is its navigation  *)
(* sidebar, present on every page of the course, and the content of each   *)
(* of its lessons.                                                         *)

Https == <<"http", "s", "://">>
CourseA == Https \o <<"rise.articulate.com", "/share/", "a">>
CourseB == Https \o <<"rise.articulate.com", "/share/", "b">>
CourseC == Https \o <<"rise.articulate.com", "/share/", "c">>
Bases == {CourseA, CourseB, CourseC}
ExampleOk == Https \o <<"example.com", "/", "ok">>
MailTo == <<"mailto:", "a">>
\* a target of the scheme "httpa"
HttpaUrl == <<"http", "a", "://", "example.com", "/", "ok">>
Lesson1 == <<"#/lessons/", "1">>
Lesson2 == <<"#/lessons/", "2">>

\* <a href=...>text</a>, <a data-link="lesson-link-item" href=...>, <a>text</a>
Anchor(href, text) == [marker |-> FALSE, href |-> Some(href), text |-> text]
NavAnchor(href, text) == [marker |-> TRUE, href |-> Some(href), text |-> text]
BareAnchor(text) == [marker |-> FALSE, href |-> None, text |-> text]

NavNone == <<>>
\* two lessons, an anchor without the marker, and a marked anchor whose
\* target is no lesson
NavTwo ==
    <<NavAnchor(Lesson1, <<" ", "Intro", "\n", "50%">>),
      Anchor(<<"#/lessons/", "9">>, <<"hidden">>),
      NavAnchor(<<"#", "top">>, <<"Top">>),
      NavAnchor(Lesson2, <<"More">>)>>

\* the same link twice under one title, a mail link, an anchor without
\* href, an in-page anchor, a relative link and a link of another scheme
\* whose name begins with "http"
PgPlain ==
    [h1 |-> Some(<<"T1">>),
     anchors |-> <<Anchor(ExampleOk, <<"ok">>), Anchor(MailTo, <<"mail">>),
                   BareAnchor(<<"x">>), Anchor(ExampleOk, <<"again">>),
                   Anchor(<<"#", "top">>, <<"up">>), Anchor(<<"/", "ok">>, <<"rel">>),
                   Anchor(HttpaUrl, <<"odd">>)>>]
\* the same link under another title
PgSame == [h1 |-> Some(<<" ", "T2">>), anchors |-> <<Anchor(ExampleOk, <<"ok">>)>>]
\* links to two courses; two of the links differ only in their fragment
PgLinks ==
    [h1 |-> Some(<<"T1">>),
     anchors |-> <<Anchor(CourseB \o Lesson1, <<"b1">>), Anchor(CourseC, <<"c">>),
                   Anchor(CourseB, <<"b">>)>>]
\* no title element; a link to the first course
PgBack ==
    [h1 |-> None,
     anchors |-> <<Anchor(CourseA \o Lesson2, <<"a2">>), Anchor(ExampleOk, <<>>)>>]
PgLinkC == [h1 |-> Some(<<"T2">>), anchors |-> <<Anchor(CourseC \o Lesson1, <<"c1">>)>>]
\* a title and a link target that hold the words the display string inserts
PgQuoteTitle ==
    [h1 |-> Some(<<"B", " is in '", "C">>), anchors |-> <<Anchor(ExampleOk, <<"ok">>)>>]
PgQuoteHref ==
    [h1 |-> Some(<<"C">>),
     anchors |-> <<Anchor(ExampleOk \o <<" is in '", "B">>, <<"ok">>)>>]
\* a page of the course that is no lesson
PgBlank == [h1 |-> None, anchors |-> <<>>]

Courses ==
    {[nav |-> NavNone, pages |-> <<>>],
     [nav |-> NavTwo, pages |-> <<PgPlain, PgSame>>],
     [nav |-> NavTwo, pages |-> <<PgLinks, PgPlain>>],
     [nav |-> NavTwo, pages |-> <<PgQuoteTitle, PgQuoteHref>>],
     [nav |-> NavTwo, pages |-> <<PgBack, PgLinkC>>]}

Webs == [Bases -> Courses]

\* the lesson a URL's fragment names: 1 for '#/lessons/1', 2 for
\* '#/lessons/2', otherwise 0
LessonNo(url) ==
    LET h == FirstIn(url, HashSyms)
        frag == SubSeq(url, h, Len(url))
    IN  IF frag = Lesson1 THEN 1 ELSE IF frag = Lesson2 THEN 2 ELSE 0

\* driver.page_source after driver.get(url): the sidebar of the course the
\* URL is in, followed by the content of the lesson its fragment names
PageSource(w, url) ==
    LET base == SubSeq(url, 1, FirstIn(url, HashSyms) - 1)
        n == LessonNo(url)
        course == w[base]
        content == IF base \in DOMAIN w /\ n \in 1..Len(course.pages)
                   THEN course.pages[n] ELSE PgBlank
    IN  [h1 |-> content.h1,
         anchors |-> (IF base \in DOMAIN w THEN course.nav ELSE <<>>) \o content.anchors]

----------------------------------------------------------------------------
(* scan_course.                                                            *)

\* the guard with the URL as given looked up instead of its base URL
AlreadyVisitedByUrl(course_url, base_url, visited) == course_url \in visited

\* base_url in self.visited_pages
AlreadyVisited(course_url, base_url, visited) == base_url \in visited

\* the URL as given marked visited instead of its base URL
MarkVisitedByUrl(visited, course_url, base_url) == visited \cup {course_url}

\* self.visited_pages.add(base_url)
MarkVisited(visited, course_url, base_url) == visited \cup {base_url}

\* the depth test off by one
CanRecurseInclusive(depth, maxd) == depth <= maxd

\* depth < max_depth
CanRecurse(depth, maxd) == depth < maxd

\* duplicates recognised by the whole entry instead of its display string
IsDuplicateEntry(results, url_data) ==
    \E i \in 1..Len(results) : results[i] = url_data

\* duplicates recognised by the target URL alone
IsDuplicateByUrl(results, url_data) ==
    \E i \in 1..Len(results) : results[i].url = url_data.url

\* any(r['display'] == url_data['display'] for r in self.all_results)
IsDuplicate(results, url_data) ==
    \E i \in 1..Len(results) : results[i].display = url_data.display

\* the new entries put in front of the list
AccumulateInFront(results, urls) == urls \o results

\* the loop over urls: append each url_data no entry has the display of
RECURSIVE Accumulate(_, _)
Accumulate(results, urls) ==
    IF urls = <<>> THEN results
    ELSE Accumulate(IF IsDuplicate(results, Head(urls)) THEN results
                    ELSE Append(results, Head(urls)),
                    Tail(urls))

\* the loop over urls: the targets added to external_courses
ExternalOf(urls, depth, maxd) ==
    {urls[i].url : i \in {j \in 1..Len(urls) :
                            IsSimilarPage(urls[j].url) /\ CanRecurse(depth, maxd)}}

\* no except clause: the failure unwinds every invocation
ExceptHandlerPropagates(stk) == <<>>

\* the failure of a lesson caught inside the loop, which goes on with the
\* next lesson
ExceptHandlerSkipsLesson(stk) ==
    IF Head(stk).pc = "lessons"
    THEN <<[Head(stk) EXCEPT !.i = @ + 1]>> \o Tail(stk)
    ELSE Tail(stk)

\* the failure caught inside the invocation, which goes on to the loop over
\* the candidates collected so far
ExceptHandlerRecurses(stk) ==
    <<[Head(stk) EXCEPT !.pc = "recurse", !.todo = Head(stk).external_courses]>>
        \o Tail(stk)

\* except Exception: the invocation that raised returns to its caller
ExceptHandler(stk) == Tail(stk)

\* the recursive call made at the depth of its caller
ChildDepthSame(depth) == depth

\* the depth argument of the recursive call: depth + 1
ChildDepth(depth) == depth + 1

\* a loop that does not advance
RemainingSame(todo, ext_course) == todo

\* the for loop over external_courses: what is left after ext_course
Remaining(todo, ext_course) == todo \ {ext_course}

\* a new invocation scan_course(course_url, depth, max_depth), called by the
\* invocation `parent` (0: called from outside)
Frame(course_url, depth, parent) ==
    [id |-> 0, parent |-> parent, course_url |-> course_url,
     base_url |-> GetBaseUrl(course_url), depth |-> depth, pc |-> "enter",
     lesson_links |-> <<>>, i |-> 1, external_courses |-> {}, todo |-> {}]

Top == Head(stack)

\* an invocation returns: its frame is popped and its outcome recorded
Return(how) ==
    /\ stack' = Tail(stack)
    /\ scans' = [scans EXCEPT ![Top.id].status = how]

\* the guard: the base URL was visited before, scan_course returns at once
ScanCourseVisited ==
    /\ stack # <<>>
    /\ Top.pc = "enter"
    /\ AlreadyVisited(Top.course_url, Top.base_url, visited_pages)
    /\ stack' = Tail(stack)
    /\ skips' = skips \cup {[url |-> Top.course_url, depth |-> Top.depth]}
    /\ UNCHANGED <<web, course_url0, max_depth, visited_pages, all_results,
                   scans, renders, extracted>>
    /\ UNCHANGED verifyVars
    /\ UNCHANGED <<cliVars, checkVars>>

\* the base URL is marked visited, the landing page is rendered and the
\* lesson list extracted; a failure is caught by the except clause
ScanCourseLanding ==
    /\ stack # <<>>
    /\ Top.pc = "enter"
    /\ ~AlreadyVisited(Top.course_url, Top.base_url, visited_pages)
    /\ visited_pages' = MarkVisited(visited_pages, Top.course_url, Top.base_url)
    /\ \E ok \in BOOLEAN :
        LET id == Len(scans) + 1
            lessons == GetLessonLinks(PageSource(web, Top.course_url).anchors,
                                      Top.base_url)
            entry == [course_url |-> Top.course_url, base_url |-> Top.base_url,
                      depth |-> Top.depth, parent |-> Top.parent,
                      status |-> IF ok THEN "active" ELSE "error",
                      lesson_links |-> IF ok THEN lessons ELSE <<>>,
                      looped |-> FALSE, cands |-> {}, invoked |-> {}]
            running == [Top EXCEPT !.id = id, !.pc = "lessons",
                                   !.lesson_links = lessons]
            failed == [Top EXCEPT !.id = id]
        IN  /\ renders' = Append(renders, [scan |-> id, kind |-> "landing",
                                           url |-> Top.course_url, ok |-> ok])
            /\ scans' = Append(scans, entry)
            /\ stack' = IF ok THEN <<running>> \o Tail(stack)
                        ELSE ExceptHandler(<<failed>> \o Tail(stack))
    /\ UNCHANGED <<web, course_url0, max_depth, all_results, skips, extracted>>
    /\ UNCHANGED verifyVars
    /\ UNCHANGED <<cliVars, checkVars>>

\* one iteration of the loop over lesson_links: the lesson page is rendered,
\* its links are accumulated and its course links collected; a failure is
\* caught by the except clause
ScanLesson ==
    /\ stack # <<>>
    /\ Top.pc = "lessons"
    /\ Top.i <= Len(Top.lesson_links)
    /\ \E ok \in BOOLEAN :
        LET lesson == Top.lesson_links[Top.i]
            lesson_soup == PageSource(web, lesson.url)
            lesson_title == GetLessonTitle(lesson_soup)
            urls == ExtractUrlsFromPage(lesson_soup, lesson_title)
            next == [Top EXCEPT !.i = @ + 1,
                                !.external_courses =
                                    @ \cup ExternalOf(urls, Top.depth, max_depth)]
            after == IF ok THEN <<next>> \o Tail(stack) ELSE ExceptHandler(stack)
        IN  /\ renders' = Append(renders, [scan |-> Top.id, kind |-> "lesson",
                                           url |-> lesson.url, ok |-> ok])
            /\ all_results' = IF ok THEN Accumulate(all_results, urls) ELSE all_results
            /\ extracted' = IF ok THEN extracted \cup Range(urls) ELSE extracted
            /\ stack' = after
            /\ scans' = IF Len(after) < Len(stack)
                        THEN [scans EXCEPT ![Top.id].status = "error"]
                        ELSE scans
    /\ UNCHANGED <<web, course_url0, max_depth, visited_pages, skips>>
    /\ UNCHANGED verifyVars
    /\ UNCHANGED <<cliVars, checkVars>>

\* after the last lesson: either the loop over external_courses is entered
\* or the invocation returns
ScanLessonsDone ==
    /\ stack # <<>>
    /\ Top.pc = "lessons"
    /\ Top.i > Len(Top.lesson_links)
    /\ IF Top.external_courses # {} /\ CanRecurse(Top.depth, max_depth)
       THEN /\ stack' = <<[Top EXCEPT !.pc = "recurse",
                                      !.todo = Top.external_courses]>> \o Tail(stack)
            /\ scans' = [scans EXCEPT ![Top.id].looped = TRUE,
                                      ![Top.id].cands = Top.external_courses]
       ELSE Return("done")
    /\ UNCHANGED <<web, course_url0, max_depth, visited_pages, all_results,
                   renders, skips, extracted>>
    /\ UNCHANGED verifyVars
    /\ UNCHANGED <<cliVars, checkVars>>

\* one iteration of the loop over external_courses, in any order:
\* self.scan_course(ext_course, depth + 1, max_depth, verbose)
ScanRecurseCall ==
    /\ stack # <<>>
    /\ Top.pc = "recurse"
    /\ \E ext_course \in Top.todo :
        /\ stack' = <<Frame(ext_course, ChildDepth(Top.depth), Top.id),
                      [Top EXCEPT !.todo = Remaining(Top.todo, ext_course)]>>
                    \o Tail(stack)
        /\ scans' = [scans EXCEPT ![Top.id].invoked = @ \cup {ext_course}]
    /\ UNCHANGED <<web, course_url0, max_depth, visited_pages, all_results,
                   renders, skips, extracted>>
    /\ UNCHANGED verifyVars
    /\ UNCHANGED <<cliVars, checkVars>>

\* the loop over external_courses is over: the invocation returns
ScanRecurseDone ==
    /\ stack # <<>>
    /\ Top.pc = "recurse"
    /\ Top.todo = {}
    /\ Return("done")
    /\ UNCHANGED <<web, course_url0, max_depth, visited_pages, all_results,
                   renders, skips, extracted>>
    /\ UNCHANGED verifyVars
    /\ UNCHANGED <<cliVars, checkVars>>

\* the caller calls scan_course a second time with the URL of the crawl
\* that has returned
ScanAgain ==
    /\ stack = <<>>
    /\ vpc = "idle"
    /\ stack' = <<Frame(course_url0, 0, 0)>>
    /\ UNCHANGED <<web, course_url0, max_depth, visited_pages, all_results,
                   scans, renders, skips, extracted>>
    /\ UNCHANGED verifyVars
    /\ UNCHANGED <<cliVars, checkVars>>

\* the steps of scan_course
ScanStep ==
    \/ ScanCourseVisited
    \/ ScanCourseLanding
    \/ ScanLesson
    \/ ScanLessonsDone
    \/ ScanRecurseCall
    \/ ScanRecurseDone

ScanNext == ScanAgain \/ ScanStep

\* the crawl: scan_course(course_url0, 0, max_depth) on fresh scanner state
ScanInit ==
    /\ web \in Webs
    /\ course_url0 \in {CourseA, CourseA \o Lesson2}
    /\ max_depth \in 0..MaxDepthBound
    /\ visited_pages = {}
    /\ all_results = <<>>
    /\ stack = <<Frame(course_url0, 0, 0)>>
    /\ scans = <<>>
    /\ renders = <<>>
    /\ skips = {}
    /\ extracted = {}

\* verify_all_urls has not been called
VerifyIdle ==
    /\ max_workers = 1
    /\ vpc = "idle"
    /\ unique_urls = <<>>
    /\ futures = <<>>
    /\ verified_results = <<>>
    /\ submits = <<>>
    /\ writes = <<>>

\* main is inside its with block, at the call `pc`, with a scanner whose
\* rendering session is open
MainAt(pc) ==
    /\ argv = [url |-> course_url0, no_verify |-> FALSE]
    /\ cpc = pc
    /\ driver = "open"
    /\ exit_code = None

\* no call of verify_url is followed on its own
CheckIdle ==
    /\ response = None
    /\ verification = None

Init == ScanInit /\ VerifyIdle /\ MainAt("scan") /\ CheckIdle

Next == ScanNext

Spec == Init /\ [][Next]_vars

\* scan_course runs in one thread that is never suspended for good, and
\* every driver.get returns or raises: a step of scan_course that can be
\* taken is taken.  Nothing obliges the caller to call again.
FairSpec == Spec /\ WF_vars(ScanStep)

----------------------------------------------------------------------------
(* verify_url.                                                             *)

\* what requests.head does: it returns a response with a status code and the
\* final URL, or raises
Responded(code, final) == [kind |-> "status", code |-> code, url |-> final, detail |-> ""]
Raised(kind, detail) == [kind |-> kind, code |-> 0, url |-> <<>>, detail |-> detail]

\* isinstance(e, cls) for the exceptions requests.head raises and the classes
\* the except clauses name: a ConnectTimeout is a ConnectionError and a
\* Timeout, a ReadTimeout is a Timeout, an SSLError is a ConnectionError,
\* and each of them is an Exception
IsInstance(kind, cls) ==
    \/ kind = cls
    \/ cls = "Exception"
    \/ kind = "ReadTimeout" /\ cls = "Timeout"
    \/ kind = "ConnectTimeout" /\ cls \in {"Timeout", "ConnectionError"}
    \/ kind = "SSLError" /\ cls = "ConnectionError"

\* the except clauses with ConnectionError tried before Timeout
ExceptClauseConnectionFirst(kind) ==
    IF IsInstance(kind, "ConnectionError") THEN "ConnectionError"
    ELSE IF IsInstance(kind, "Timeout") THEN "Timeout"
    ELSE IF IsInstance(kind, "TooManyRedirects") THEN "TooManyRedirects"
    ELSE "Exception"

\* the except clause that handles an exception: the first, in the order they
\* are written, that names a class the exception is an instance of
ExceptClause(kind) ==
    IF IsInstance(kind, "Timeout") THEN "Timeout"
    ELSE IF IsInstance(kind, "ConnectionError") THEN "ConnectionError"
    ELSE IF IsInstance(kind, "TooManyRedirects") THEN "TooManyRedirects"
    ELSE "Exception"

\* 300 <= status_code < 400
IsRedirection(status_code) == 300 <= status_code /\ status_code < 400

\* 400 <= status_code < 500
IsClientError(status_code) == 400 <= status_code /\ status_code < 500

\* the upper end of the range included
IsServerErrorInclusive(status_code) == 500 <= status_code /\ status_code <= 600

\* 500 <= status_code < 600
IsServerError(status_code) == 500 <= status_code /\ status_code < 600

\* verify_url(url, timeout), given what requests.head did
VerifyUrl(head) ==
    LET status_code == head.code
        clause == ExceptClause(head.kind)
    IN  IF head.kind = "status" THEN
            IF status_code = 200 THEN
                [status |-> "OK", code |-> Some(status_code),
                 message |-> <<"URL is accessible">>]
            ELSE IF IsRedirection(status_code) THEN
                [status |-> "WARNING", code |-> Some(status_code),
                 message |-> <<"Redirects to ">> \o head.url]
            ELSE IF IsClientError(status_code) THEN
                [status |-> "BROKEN", code |-> Some(status_code),
                 message |-> <<"Client error (page not found or forbidden)">>]
            ELSE IF IsServerError(status_code) THEN
                [status |-> "BROKEN", code |-> Some(status_code),
                 message |-> <<"Server error">>]
            ELSE
                [status |-> "WARNING", code |-> Some(status_code),
                 message |-> <<"Unexpected status code: ", ToString(status_code)>>]
        ELSE IF clause = "Timeout" THEN
            [status |-> "ERROR", code |-> None, message |-> <<"Request timed out">>]
        ELSE IF clause = "ConnectionError" THEN
            [status |-> "BROKEN", code |-> None, message |-> <<"Connection failed">>]
        ELSE IF clause = "TooManyRedirects" THEN
            [status |-> "WARNING", code |-> None, message |-> <<"Too many redirects">>]
        ELSE
            [status |-> "ERROR", code |-> None,
             message |-> <<"Error: ", head.detail>>]

----------------------------------------------------------------------------
(* verify_all_urls.                                                        *)

\* what the liveness checks of a batch meet
Responses(url) == {Responded(200, url), Responded(404, url), Raised("Timeout", "")}

\* how a work item self.verify_url(url) ends: requests.head answers or fails
\* and verify_url returns its classification, or the call itself ends with
\* an exception, which the future keeps
Outcomes(url) ==
    {[head |-> Some(h), result |-> Some(VerifyUrl(h)), exception |-> None] :
        h \in Responses(url)}
    \cup {[head |-> None, result |-> None, exception |-> Some("MemoryError")]}

\* the loop that groups all_results by URL: unique_urls, its keys in
\* insertion order
RECURSIVE GroupByUrl(_, _)
GroupByUrl(unique, results) ==
    IF results = <<>> THEN unique
    ELSE LET result == Head(results)
             known == {i \in 1..Len(unique) : unique[i].url = result.url}
         IN  IF known = {}
             THEN GroupByUrl(Append(unique, [url |-> result.url, results |-> <<result>>]),
                             Tail(results))
             ELSE LET i == CHOOSE i \in known : TRUE
                  IN  GroupByUrl([unique EXCEPT ![i].results = Append(@, result)],
                                 Tail(results))

\* one submission per accumulated entry instead of one per key
SubmitOrderPerEntry(results, unique) == [i \in 1..Len(results) |-> results[i].url]

\* for url in unique_urls.keys(): the URLs submitted, in order
SubmitOrder(results, unique) == [i \in 1..Len(unique) |-> unique[i].url]

\* every future mapped to the URL submitted last
FutureToUrlLast(futs, k) == futs[Len(futs)].url

\* future_to_url[future]
FutureToUrl(futs, k) == futs[k].url

\* the assignment dropped: the dictionary as it was
PutNothing(m, k, v) == m

\* a dictionary with key k set to v
Put(m, k, v) == [x \in DOMAIN m \cup {k} |-> IF x = k THEN v ELSE m[x]]

\* number of occurrences of x in the sequence s
Count(s, x) == Cardinality({i \in 1..Len(s) : s[i] = x})

Running == {k \in 1..Len(futures) : futures[k].state = "running"}
Pending == {k \in 1..Len(futures) : futures[k].state = "pending"}

\* a pool that starts a thread for every work item
HasIdleWorkerAlways(running, workers) == TRUE

\* ThreadPoolExecutor(max_workers=max_workers): the pool has at most
\* max_workers threads, each running one work item at a time
HasIdleWorker(running, workers) == running < workers

\* a check that does not end with status OK cancels the work items that
\* are still queued
AfterCheckCancelsQueued(futs, k, outcome) ==
    [j \in 1..Len(futs) |->
        IF j = k
        THEN [futs[j] EXCEPT !.state = "finished", !.head = outcome.head,
                             !.result = outcome.result,
                             !.exception = outcome.exception]
        ELSE IF futs[j].state = "pending"
                /\ (outcome.result = None \/ outcome.result[1].status # "OK")
        THEN [futs[j] EXCEPT !.state = "cancelled"]
        ELSE futs[j]]

\* the futures once the work item k has ended: its future is set, no other
\* future is touched
AfterCheck(futs, k, outcome) ==
    [futs EXCEPT ![k].state = "finished", ![k].head = outcome.head,
                 ![k].result = outcome.result,
                 ![k].exception = outcome.exception]

\* the entry written with a status that is not ERROR
FutureErrorUnknown(e) ==
    [status |-> "UNKNOWN", code |-> None, message |-> <<"Not verified">>]

\* except Exception as e: {'status': 'ERROR', 'code': None, 'message': str(e)}
FutureError(e) == [status |-> "ERROR", code |-> None, message |-> <<e>>]

\* what the loop body writes for a finished future: the value future.result()
\* returns, or the ERROR entry when it raises
Recorded(fut) ==
    IF fut.exception = None THEN fut.result[1] ELSE FutureError(fut.exception[1])

\* verify_all_urls is called once the traversal has returned: unique_urls is
\* built and the executor created
VerifyStart ==
    /\ vpc = "idle"
    /\ stack = <<>>
    /\ max_workers >= 1
    /\ unique_urls' = GroupByUrl(<<>>, all_results)
    /\ vpc' = IF all_results = <<>> THEN "collect" ELSE "submit"
    /\ UNCHANGED <<max_workers, futures, verified_results, submits, writes>>
    /\ UNCHANGED scanVars
    /\ UNCHANGED <<cliVars, checkVars>>

\* one executor.submit(self.verify_url, url) of the dictionary comprehension
VerifySubmit ==
    /\ vpc = "submit"
    /\ LET order == SubmitOrder(all_results, unique_urls)
           k == Len(futures) + 1
       IN  /\ futures' = Append(futures, [url |-> order[k], state |-> "pending",
                                          head |-> None, result |-> None,
                                          exception |-> None, collected |-> FALSE])
           /\ submits' = Append(submits, order[k])
           /\ vpc' = IF k = Len(order) THEN "collect" ELSE "submit"
    /\ UNCHANGED <<max_workers, unique_urls, verified_results, writes>>
    /\ UNCHANGED scanVars
    /\ UNCHANGED <<cliVars, checkVars>>

\* a worker thread of the pool takes the oldest queued work item; the pool
\* has at most max_workers threads
WorkerStart ==
    /\ Pending # {}
    /\ HasIdleWorker(Cardinality(Running), max_workers)
    /\ LET k == CHOOSE k \in Pending : \A j \in Pending : k <= j
       IN  futures' = [futures EXCEPT ![k].state = "running"]
    /\ UNCHANGED <<max_workers, vpc, unique_urls, verified_results, submits, writes>>
    /\ UNCHANGED scanVars
    /\ UNCHANGED <<cliVars, checkVars>>

\* a running work item ends: verify_url returns or raises and the future
\* is set
WorkerFinish ==
    /\ \E k \in Running :
        \E outcome \in Outcomes(futures[k].url) :
            futures' = AfterCheck(futures, k, outcome)
    /\ UNCHANGED <<max_workers, vpc, unique_urls, verified_results, submits, writes>>
    /\ UNCHANGED scanVars
    /\ UNCHANGED <<cliVars, checkVars>>

\* one iteration of the loop over as_completed(future_to_url), which yields
\* each future once, finished futures in any order
VerifyCollect ==
    /\ vpc = "collect"
    /\ \E k \in 1..Len(futures) :
        /\ futures[k].state = "finished"
        /\ ~futures[k].collected
        /\ LET url == FutureToUrl(futures, k)
           IN  /\ verified_results' = Put(verified_results, url, Recorded(futures[k]))
               /\ writes' = Append(writes, url)
        /\ futures' = [futures EXCEPT ![k].collected = TRUE]
    /\ UNCHANGED <<max_workers, vpc, unique_urls, submits>>
    /\ UNCHANGED scanVars
    /\ UNCHANGED <<cliVars, checkVars>>

\* every future was yielded: the with block is left and the results returned
VerifyReturn ==
    /\ vpc = "collect"
    /\ Len(futures) = Len(SubmitOrder(all_results, unique_urls))
    /\ \A k \in 1..Len(futures) : futures[k].collected
    /\ vpc' = "returned"
    /\ UNCHANGED <<max_workers, unique_urls, futures, verified_results, submits, writes>>
    /\ UNCHANGED scanVars
    /\ UNCHANGED <<cliVars, checkVars>>

VerifyNext ==
    \/ VerifyStart
    \/ VerifySubmit
    \/ WorkerStart
    \/ WorkerFinish
    \/ VerifyCollect
    \/ VerifyReturn

\* the entries result lists are made of
Entries ==
    {ExtractUrlsFromPage(PgPlain, <<"T1">>)[1],
     ExtractUrlsFromPage(PgSame, <<"T2">>)[1],
     ExtractUrlsFromPage(PgLinks, <<"T1">>)[2],
     ExtractUrlsFromPage(PgLinks, <<"T1">>)[3]}

\* the result lists a crawl can leave: no two entries with the same display
ResultLists ==
    {rs \in UNION {[1..n -> Entries] : n \in 0..MaxResults} :
        \A i, j \in 1..Len(rs) : i # j => rs[i].display # rs[j].display}

\* verify_all_urls(max_workers) on a scanner whose traversal has returned
\* with all_results; the call reads nothing else of the scanner
VerifyInit ==
    /\ web = [b \in Bases |-> [nav |-> NavNone, pages |-> <<>>]]
    /\ course_url0 = CourseA
    /\ max_depth = 0
    /\ visited_pages = {CourseA}
    /\ all_results \in ResultLists
    /\ stack = <<>>
    /\ scans = <<>>
    /\ renders = <<>>
    /\ skips = {}
    /\ extracted = Range(all_results)
    /\ max_workers \in 1..MaxWorkersBound
    /\ vpc = "idle"
    /\ unique_urls = <<>>
    /\ futures = <<>>
    /\ verified_results = <<>>
    /\ submits = <<>>
    /\ writes = <<>>
    /\ MainAt("verify")
    /\ CheckIdle

VerifySpec == VerifyInit /\ [][VerifyNext]_vars

\* the main thread and the pool's threads keep running, and every
\* requests.head ends, with a response or with its timeout: a step of
\* verify_all_urls that can be taken is taken
FairVerifySpec == VerifySpec /\ WF_vars(VerifyNext)

----------------------------------------------------------------------------
(* print_results: the lookup of each entry's verification and the four     *)
(* counters of the summary.                                                *)

\* the default of verified_results.get(url, ...): a dictionary without the
\* key 'code'
NotVerified == [status |-> "UNKNOWN", message |-> <<"Not verified">>]

\* verified_results.get(url, {'status': 'UNKNOWN', 'message': 'Not verified'})
Get(verified, url) == IF url \in DOMAIN verified THEN verified[url] ELSE NotVerified

\* the loop over scanner.all_results: one counter is incremented for each
\* entry, the last one for every status that is not OK, WARNING or BROKEN
RECURSIVE CountStatuses(_, _, _)
CountStatuses(counts, results, verified) ==
    IF results = <<>> THEN counts
    ELSE LET status == Get(verified, Head(results).url).status
             next == IF status = "OK"
                         THEN [counts EXCEPT !.working_count = @ + 1]
                     ELSE IF status = "WARNING"
                         THEN [counts EXCEPT !.warning_count = @ + 1]
                     ELSE IF status = "BROKEN"
                         THEN [counts EXCEPT !.broken_count = @ + 1]
                     ELSE [counts EXCEPT !.error_count = @ + 1]
         IN  CountStatuses(next, Tail(results), verified)

\* the counters print_results prints for all_results and verified_results
PrintResults(results, verified) ==
    CountStatuses([working_count |-> 0, warning_count |-> 0,
                   broken_count |-> 0, error_count |-> 0], results, verified)

----------------------------------------------------------------------------
(* verify_url on its own: one call for each thing requests.head can do.    *)

\* the exceptions requests.head raises
ExceptionKinds ==
    {"ReadTimeout", "ConnectTimeout", "ConnectionError", "SSLError",
     "TooManyRedirects", "InvalidURL", "ValueError"}

\* what requests.head(url, timeout=timeout, allow_redirects=True) does
HeadOutcomes ==
    {Responded(s, final) : s \in 0..MaxStatus, final \in {ExampleOk, CourseB}}
    \cup {Raised(kind, "boom") : kind \in ExceptionKinds}

\* verify_url is called and requests.head has answered or failed
CheckInit ==
    /\ web = [b \in Bases |-> [nav |-> NavNone, pages |-> <<>>]]
    /\ course_url0 = CourseA
    /\ max_depth = 0
    /\ visited_pages = {}
    /\ all_results = <<>>
    /\ stack = <<>>
    /\ scans = <<>>
    /\ renders = <<>>
    /\ skips = {}
    /\ extracted = {}
    /\ VerifyIdle
    /\ MainAt("verify")
    /\ response \in {Some(head) : head \in HeadOutcomes}
    /\ verification = None

\* verify_url classifies what requests.head did and returns
VerifyUrlReturn ==
    /\ response # None
    /\ verification = None
    /\ verification' = Some(VerifyUrl(response[1]))
    /\ UNCHANGED response
    /\ UNCHANGED <<scanVars, verifyVars, cliVars>>

CheckSpec == CheckInit /\ [][VerifyUrlReturn]_vars

----------------------------------------------------------------------------
(* main: the command line run.                                             *)

CourseXyz == Https \o <<"rise.articulate.com", "/share/", "xyz">>
NotAUrl == <<"not-a-url">>
FtpUrl == <<"ftp", "://", "example.com", "/", "ok">>

\* a lesson that links to a page and to another course
PgOkAndCourse ==
    [h1 |-> Some(<<"T1">>),
     anchors |-> <<Anchor(ExampleOk, <<"ok">>), Anchor(CourseXyz, <<"next">>)>>]

\* a course of two lessons with different titles that link to the same page,
\* the first of them also to a second course, which has no lessons
TwoLessonWeb ==
    (CourseA :> [nav |-> NavTwo, pages |-> <<PgOkAndCourse, PgSame>>])
    @@ (CourseXyz :> [nav |-> NavNone, pages |-> <<>>])

\* courses that link to each other and to themselves
CycleWeb == [b \in Bases |-> [nav |-> NavTwo, pages |-> <<PgBack, PgLinkC>>]]

CliWebs == {TwoLessonWeb, CycleWeb}

\* the positional argument
CliUrls == {CourseA, NotAUrl, FtpUrl}

\* every URL accepted
ValidUrlAny(url) == TRUE

\* args.url.startswith('http')
ValidUrl(url) == StartsWithHttp(url)

\* an __exit__ that leaves the session as it is
ScannerExitKeeps(d) == d

\* ArticulateScanner.__exit__: self.driver.quit()
ScannerExit(d) == "quit"

\* the verification run whatever the flag says
ShouldVerifyAlways(no_verify) == TRUE

\* if not args.no_verify
ShouldVerify(no_verify) == ~no_verify

\* the process ends with `code`
Exit(code) ==
    /\ cpc' = "exited"
    /\ exit_code' = Some(code)

\* the URL does not start with 'http': sys.exit(1)
CliReject ==
    /\ cpc = "start"
    /\ ~ValidUrl(argv.url)
    /\ Exit(1)
    /\ UNCHANGED <<argv, driver>>
    /\ UNCHANGED <<scanVars, verifyVars, checkVars>>

\* with ArticulateScanner(...) as scanner: webdriver.Chrome starts the
\* session and scan_course is called, or webdriver.Chrome raises and the
\* run ends in except Exception
CliOpen ==
    /\ cpc = "start"
    /\ ValidUrl(argv.url)
    /\ \E ok \in BOOLEAN :
        IF ok
        THEN /\ driver' = "open"
             /\ cpc' = "scan"
             /\ stack' = <<Frame(argv.url, 0, 0)>>
             /\ exit_code' = exit_code
        ELSE /\ Exit(1)
             /\ UNCHANGED <<driver, stack>>
    /\ UNCHANGED <<web, course_url0, max_depth, visited_pages, all_results,
                   scans, renders, skips, extracted, argv>>
    /\ UNCHANGED <<verifyVars, checkVars>>

\* a step of scanner.scan_course(args.url, max_depth=args.max_depth)
CliScan ==
    /\ cpc = "scan"
    /\ ScanStep

\* scan_course has returned: verify_all_urls is called unless --no-verify
CliScanned ==
    /\ cpc = "scan"
    /\ stack = <<>>
    /\ cpc' = IF ShouldVerify(argv.no_verify) THEN "verify" ELSE "print"
    /\ UNCHANGED <<argv, driver, exit_code>>
    /\ UNCHANGED <<scanVars, verifyVars, checkVars>>

\* a step of scanner.verify_all_urls(max_workers=args.max_workers)
CliVerify ==
    /\ cpc = "verify"
    /\ VerifyNext

\* ThreadPoolExecutor(max_workers) raises ValueError for max_workers <= 0:
\* the with block is left through __exit__ and except Exception exits
CliVerifyRaises ==
    /\ cpc = "verify"
    /\ vpc = "idle"
    /\ max_workers < 1
    /\ unique_urls' = GroupByUrl(<<>>, all_results)
    /\ vpc' = "raised"
    /\ driver' = ScannerExit(driver)
    /\ Exit(1)
    /\ UNCHANGED <<max_workers, futures, verified_results, submits, writes, argv>>
    /\ UNCHANGED <<scanVars, checkVars>>

\* verify_all_urls has returned: print_results
CliVerified ==
    /\ cpc = "verify"
    /\ vpc = "returned"
    /\ cpc' = "print"
    /\ UNCHANGED <<argv, driver, exit_code>>
    /\ UNCHANGED <<scanVars, verifyVars, checkVars>>

\* the results are printed, the with block is left through __exit__ and
\* main returns
CliDone ==
    /\ cpc = "print"
    /\ driver' = ScannerExit(driver)
    /\ Exit(0)
    /\ UNCHANGED argv
    /\ UNCHANGED <<scanVars, verifyVars, checkVars>>

\* KeyboardInterrupt inside the with block: no except Exception catches it;
\* while the executor is open its with block first waits for the pool,
\* otherwise __exit__ runs and except KeyboardInterrupt exits with 130
CliInterrupt ==
    /\ cpc \in {"scan", "verify", "print"}
    /\ IF cpc = "verify" /\ vpc \in {"submit", "collect"}
       THEN /\ cpc' = "unwind"
            /\ UNCHANGED <<driver, exit_code, stack>>
       ELSE /\ driver' = ScannerExit(driver)
            /\ Exit(130)
            /\ stack' = <<>>
    /\ UNCHANGED <<web, course_url0, max_depth, visited_pages, all_results,
                   scans, renders, skips, extracted, argv>>
    /\ UNCHANGED <<verifyVars, checkVars>>

\* executor.shutdown(wait=True) while the exception unwinds: the pool runs
\* the work items that were submitted
CliUnwindPool ==
    /\ cpc = "unwind"
    /\ (WorkerStart \/ WorkerFinish)

\* the pool is done: the exception leaves the scanner's with block through
\* __exit__ and except KeyboardInterrupt exits with 130
CliUnwound ==
    /\ cpc = "unwind"
    /\ Running = {}
    /\ Pending = {}
    /\ driver' = ScannerExit(driver)
    /\ Exit(130)
    /\ UNCHANGED argv
    /\ UNCHANGED <<scanVars, verifyVars, checkVars>>

CliNext ==
    \/ CliReject
    \/ CliOpen
    \/ CliScan
    \/ CliScanned
    \/ CliVerify
    \/ CliVerifyRaises
    \/ CliVerified
    \/ CliDone
    \/ CliInterrupt
    \/ CliUnwindPool
    \/ CliUnwound

\* main after parse_args
CliInit ==
    /\ web \in CliWebs
    /\ argv \in [url : CliUrls, no_verify : BOOLEAN]
    /\ course_url0 = argv.url
    /\ max_depth \in 0..MaxDepthBound
    /\ max_workers \in 0..MaxWorkersBound
    /\ visited_pages = {}
    /\ all_results = <<>>
    /\ stack = <<>>
    /\ scans = <<>>
    /\ renders = <<>>
    /\ skips = {}
    /\ extracted = {}
    /\ vpc = "idle"
    /\ unique_urls = <<>>
    /\ futures = <<>>
    /\ verified_results = <<>>
    /\ submits = <<>>
    /\ writes = <<>>
    /\ cpc = "start"
    /\ driver = "none"
    /\ exit_code = None
    /\ CheckIdle

CliSpec == CliInit /\ [][CliNext]_vars

----------------------------------------------------------------------------
(* get_lesson_links on every sidebar: scan_course on a course whose        *)
(* lessons are blank pages.                                                *)

\* the anchors a sidebar is made of: lessons, an anchor without the marker,
\* marked anchors with a target that is no lesson, without href and with an
\* empty href, a lesson without id, and a target that holds the prefix twice
NavAnchors ==
    {NavAnchor(Lesson1, <<" ", "Intro", "\n", "50%">>),
     NavAnchor(Lesson2, <<"More">>),
     Anchor(<<"#/lessons/", "9">>, <<"hidden">>),
     NavAnchor(<<"#", "top">>, <<"Top">>),
     [marker |-> TRUE, href |-> None, text |-> <<"x">>],
     NavAnchor(<<>>, <<"empty">>),
     NavAnchor(<<"#/lessons/">>, <<"bare">>),
     NavAnchor(<<"#/lessons/", "1", "#/lessons/", "2">>, <<"twice">>)}

NavSoups == UNION {[1..n -> NavAnchors] : n \in 0..MaxNav}

\* scan_course(course_url0, 0, max_depth) on a course with any sidebar
LinksInit ==
    /\ web \in {[b \in Bases |-> [nav |-> nav, pages |-> <<>>]] : nav \in NavSoups}
    /\ course_url0 \in {CourseA, CourseA \o Lesson2}
    /\ max_depth = 0
    /\ visited_pages = {}
    /\ all_results = <<>>
    /\ stack = <<Frame(course_url0, 0, 0)>>
    /\ scans = <<>>
    /\ renders = <<>>
    /\ skips = {}
    /\ extracted = {}
    /\ VerifyIdle
    /\ MainAt("scan")
    /\ CheckIdle

LinksNext ==
    \/ ScanCourseLanding
    \/ ScanLesson
    \/ ScanLessonsDone

LinksSpec == LinksInit /\ [][LinksNext]_vars

----------------------------------------------------------------------------
(* Courses that link to each other: four courses of one lesson each, the   *)
(* lesson of a course holding links to other courses.                      *)

CourseD == Https \o <<"rise.articulate.com", "/share/", "d">>
LinkedBases == {CourseA, CourseB, CourseC, CourseD}

NavOne == <<NavAnchor(Lesson1, <<"Only">>)>>
PgToBC ==
    [h1 |-> Some(<<"T1">>),
     anchors |-> <<Anchor(CourseB, <<"b">>), Anchor(CourseC \o Lesson1, <<"c1">>)>>]
PgToC == [h1 |-> Some(<<"T1">>), anchors |-> <<Anchor(CourseC, <<"c">>)>>]
PgToD == [h1 |-> Some(<<"T1">>), anchors |-> <<Anchor(CourseD \o Lesson1, <<"d1">>)>>]
PgToA == [h1 |-> Some(<<"T1">>), anchors |-> <<Anchor(CourseA, <<"a">>)>>]

LinkedCourses ==
    {[nav |-> NavOne, pages |-> <<PgPlain>>],
     [nav |-> NavOne, pages |-> <<PgToBC>>],
     [nav |-> NavOne, pages |-> <<PgToC>>],
     [nav |-> NavOne, pages |-> <<PgToD>>],
     [nav |-> NavOne, pages |-> <<PgToA>>]}

LinkedWebs ==
    {w \in [LinkedBases -> LinkedCourses] : w[CourseA].pages = <<PgToBC>>}

\* scan_course(course_url0, 0, max_depth) on fresh scanner state, over a web
\* of linked courses
LinkedInit ==
    /\ web \in LinkedWebs
    /\ course_url0 = CourseA
    /\ max_depth \in 0..MaxDepthBound
    /\ visited_pages = {}
    /\ all_results = <<>>
    /\ stack = <<Frame(course_url0, 0, 0)>>
    /\ scans = <<>>
    /\ renders = <<>>
    /\ skips = {}
    /\ extracted = {}
    /\ VerifyIdle
    /\ MainAt("scan")
    /\ CheckIdle

LinkedNext == ScanStep

LinkedSpec == LinkedInit /\ [][LinkedNext]_vars

----------------------------------------------------------------------------
(* Properties of the traversal.                                            *)

\* the links extract_urls_from_page returns for a rendered lesson page
LinksOn(url) == Range(ExtractUrlsFromPage(PageSource(web, url),
                                          GetLessonTitle(PageSource(web, url))))

\* the lesson pages the invocation k has rendered
LessonRenders(k) ==
    {i \in 1..Len(renders) : renders[i].scan = k /\ renders[i].kind = "lesson"}

\* C1: a call of scan_course whose base URL (the URL up to its first '#') is
\* in visited_pages returns at once: it renders no page, starts no scan and
\* leaves visited_pages and all_results as they are, whatever its depth.
C1_VisitedCallIsNoOp ==
    [][(stack # <<>> /\ Top.pc = "enter"
            /\ GetBaseUrl(Top.course_url) \in visited_pages)
        => /\ stack' = Tail(stack)
           /\ visited_pages' = visited_pages
           /\ all_results' = all_results
           /\ renders' = renders
           /\ scans' = scans]_vars

\* a call below the root whose URL carries a fragment returned at the guard
C1_Witness ==
    \E s \in skips : s.depth >= 1 /\ s.url # GetBaseUrl(s.url)

\* C2: every invocation of a crawl started at depth 0 runs at a depth of at
\* most max_depth, and an invocation at depth max_depth never enters the
\* loop over external_courses and calls scan_course for no link.
C2_DepthBounded ==
    /\ \A j \in 1..Len(stack) :
        /\ stack[j].depth <= max_depth
        /\ stack[j].depth = max_depth => stack[j].pc # "recurse"
    /\ \A k \in 1..Len(scans) :
        /\ scans[k].depth <= max_depth
        /\ scans[k].depth = max_depth => ~scans[k].looped /\ scans[k].invoked = {}
    /\ \A s \in skips : s.depth <= max_depth

\* an invocation at depth max_depth >= 1 has returned after rendering a
\* lesson that holds a link to a similar course
C2_Witness ==
    \E k \in 1..Len(scans) :
        /\ max_depth >= 1
        /\ scans[k].depth = max_depth
        /\ scans[k].status = "done"
        /\ \E i \in LessonRenders(k) :
            renders[i].ok /\ \E u \in LinksOn(renders[i].url) : IsSimilarPage(u.url)

\* C3: every crawl terminates: from every state the outermost scan_course
\* returns, whatever links the courses hold and whichever renders fail.
C3_Terminates == []<>(stack = <<>>)

\* a crawl has ended in which a call hit the visited guard and a render failed
C3_Witness ==
    /\ stack = <<>>
    /\ skips # {}
    /\ \E i \in 1..Len(renders) : ~renders[i].ok

\* C4: no two entries of all_results have the same display string.
C4_DisplaysDistinct ==
    \A i, j \in 1..Len(all_results) :
        i # j => all_results[i].display # all_results[j].display

\* an extracted link was left out because an entry had its display string
C4_Witness ==
    \E e \in extracted : \A i \in 1..Len(all_results) : all_results[i] # e

\* C5: links collapse into one entry only when they have the same target
\* URL and the same lesson title: every link extracted from a processed
\* lesson has an entry of all_results with its URL and its lesson title.
C5_PairsKept ==
    \A e \in extracted :
        \E i \in 1..Len(all_results) :
            all_results[i].url = e.url /\ all_results[i].lesson = e.lesson

\* C6: the landing page of a course base URL is rendered at most once in a
\* crawl: no two landing renders are of URLs with the same base URL.
C6_LandingRenderedOnce ==
    \A i, j \in 1..Len(renders) :
        (i < j /\ renders[i].kind = "landing" /\ renders[j].kind = "landing")
            => GetBaseUrl(renders[i].url) # GetBaseUrl(renders[j].url)

\* a course whose scan failed was called again through a link that differs
\* from the first one in its fragment, and the call returned at the guard
C6_Witness ==
    \E k \in 1..Len(scans) :
        /\ scans[k].status = "error"
        /\ \E s \in skips :
            GetBaseUrl(s.url) = scans[k].base_url /\ s.url # scans[k].course_url

\* C7: a failure while a course is scanned ends that invocation only: every
\* invocation that has not returned is still on the call stack, and an
\* invocation that entered the loop over external_courses and returned has
\* called scan_course for each of its candidates.
C7_FailureContained ==
    /\ \A k \in 1..Len(scans) :
        scans[k].status = "active" => \E j \in 1..Len(stack) : stack[j].id = k
    /\ \A k \in 1..Len(scans) :
        (scans[k].looped /\ scans[k].status # "active")
            => scans[k].status = "done" /\ scans[k].invoked = scans[k].cands

\* an invocation has returned from its loop in which the scan of one
\* candidate failed and the scan of another candidate started after it
C7_Witness ==
    \E k, c, d \in 1..Len(scans) :
        /\ scans[k].status = "done"
        /\ scans[c].parent = k /\ scans[c].status = "error"
        /\ scans[d].parent = k /\ c < d

\* C8 as stated: when a lesson page fails to render, the remaining lessons
\* of the course are still rendered: an invocation that has returned after
\* its landing page was rendered has rendered each of its lessons.
C8_AllLessonsRendered ==
    \A k \in 1..Len(scans) :
        scans[k].status # "active"
            => Cardinality(LessonRenders(k)) = Len(scans[k].lesson_links)

\* C8 as amended: when a lesson page fails to render, the scan of the course
\* ends there: the invocation returns with the failure caught and renders
\* no further page.
C8_LessonFailureEndsScan ==
    \A i \in 1..Len(renders) :
        (renders[i].kind = "lesson" /\ ~renders[i].ok)
            => /\ scans[renders[i].scan].status = "error"
               /\ \A j \in 1..Len(renders) : j > i => renders[j].scan # renders[i].scan

\* the first of two lessons failed and the crawl went on to its end
C8_Witness ==
    /\ stack = <<>>
    /\ \E i \in 1..Len(renders) :
        /\ renders[i].kind = "lesson" /\ ~renders[i].ok
        /\ Cardinality(LessonRenders(renders[i].scan))
             < Len(scans[renders[i].scan].lesson_links)
        /\ i < Len(renders)

----------------------------------------------------------------------------
(* Properties of the verification stage.                                   *)

\* the distinct url values of the entries of all_results
ResultUrls == {all_results[i].url : i \in 1..Len(all_results)}

\* C9: the URLs submitted to the worker pool are exactly the distinct url
\* values of the entries of all_results, each submitted once: no URL is
\* ever submitted twice or from outside all_results, and once the
\* submissions are over none is missing.
C9_SubmittedOncePerUrl ==
    /\ Range(submits) \subseteq ResultUrls
    /\ \A u \in ResultUrls : Count(submits, u) <= 1
    /\ vpc \in {"collect", "returned"} => Range(submits) = ResultUrls

\* the submissions are over for a list in which two entries have the same
\* URL and a third has another
C9_Witness ==
    /\ vpc \in {"collect", "returned"}
    /\ Len(submits) = 2
    /\ Len(all_results) = 3

\* C10: when verify_all_urls returns, the keys of verified_results are the
\* keys of unique_urls, each was written exactly once, and each holds the
\* result of the check of its own URL, in whatever order the checks ended.
C10_OneResultPerUrl ==
    vpc = "returned" =>
        /\ DOMAIN verified_results = {unique_urls[i].url : i \in 1..Len(unique_urls)}
        /\ \A i \in 1..Len(unique_urls) : Count(writes, unique_urls[i].url) = 1
        /\ Len(writes) = Len(unique_urls)
        /\ \A k \in 1..Len(futures) :
            verified_results[futures[k].url] = Recorded(futures[k])

\* verify_all_urls has returned after three checks of which the one
\* submitted last was collected first, with different results
C10_Witness ==
    /\ vpc = "returned"
    /\ Len(futures) = 3
    /\ writes[1] = futures[3].url
    /\ futures[1].result # futures[3].result

\* C11: when future.result() raises for a future, its URL is recorded with
\* status ERROR and no code, and the batch goes on: when verify_all_urls
\* returns every URL has its entry, the others the value their own check
\* returned.
C11_ResultErrorRecorded ==
    /\ \A k \in 1..Len(futures) :
        (futures[k].collected /\ futures[k].exception # None)
            => /\ futures[k].url \in DOMAIN verified_results
               /\ verified_results[futures[k].url].status = "ERROR"
               /\ verified_results[futures[k].url].code = None
    /\ vpc = "returned" =>
        \A k \in 1..Len(futures) :
            /\ futures[k].url \in DOMAIN verified_results
            /\ futures[k].exception = None
                => verified_results[futures[k].url] = futures[k].result[1]

\* verify_all_urls has returned after the future collected first raised and
\* a future collected after it held an OK result
C11_Witness ==
    /\ vpc = "returned"
    /\ \E k, j \in 1..Len(futures) :
        /\ futures[k].exception # None
        /\ writes[1] = futures[k].url
        /\ futures[j].exception = None
        /\ verified_results[futures[j].url].status = "OK"

----------------------------------------------------------------------------
(* Properties of verify_url.                                               *)

\* C12: for a response with status code s the result has status OK exactly
\* when s = 200, WARNING when 300 <= s <= 399, BROKEN when 400 <= s <= 599
\* and WARNING for every other s, and its code is s, whatever the final URL
\* of the response.
C12_StatusClassified ==
    (verification # None /\ response[1].kind = "status") =>
        LET s == response[1].code
            v == verification[1]
        IN  /\ v.status = "OK" <=> s = 200
            /\ (300 <= s /\ s <= 399) => v.status = "WARNING"
            /\ (400 <= s /\ s <= 599) => v.status = "BROKEN"
            /\ (s # 200 /\ ~(300 <= s /\ s <= 599)) => v.status = "WARNING"
            /\ v.code = Some(s)

\* verify_url has returned WARNING for a 2xx code other than 200
C12_Witness ==
    /\ verification # None
    /\ response[1].kind = "status"
    /\ response[1].code = 204
    /\ verification[1].status = "WARNING"

\* C13: when requests.head raises, verify_url returns a result without code:
\* ERROR 'Request timed out' for a timeout, BROKEN 'Connection failed' for a
\* connection failure that is no timeout, WARNING 'Too many redirects' for
\* excessive redirects and ERROR for any other failure, the rules applied in
\* this order.
C13_FailuresClassified ==
    (verification # None /\ response[1].kind # "status") =>
        LET kind == response[1].kind
            v == verification[1]
            timeout == IsInstance(kind, "Timeout")
            connection == IsInstance(kind, "ConnectionError")
            redirects == IsInstance(kind, "TooManyRedirects")
        IN  /\ v.code = None
            /\ v.status \in {"ERROR", "BROKEN", "WARNING"}
            /\ timeout
                => v.status = "ERROR" /\ v.message = <<"Request timed out">>
            /\ (connection /\ ~timeout)
                => v.status = "BROKEN" /\ v.message = <<"Connection failed">>
            /\ (redirects /\ ~timeout /\ ~connection)
                => v.status = "WARNING" /\ v.message = <<"Too many redirects">>
            /\ (~timeout /\ ~connection /\ ~redirects)
                => v.status = "ERROR" /\ v.message = <<"Error: ", response[1].detail>>

\* verify_url has returned for a connect timeout, which is a timeout and a
\* connection failure
C13_Witness ==
    /\ verification # None
    /\ response[1].kind = "ConnectTimeout"
    /\ verification[1].message = <<"Request timed out">>

----------------------------------------------------------------------------
(* Properties of the worker pool.                                          *)

\* C14: at every moment of verify_all_urls at most max_workers checks are
\* in flight, also when there are more unique URLs than workers.
C14_InFlightBounded == Cardinality(Running) <= max_workers

\* two checks are in flight on a pool of two workers while a third URL is
\* queued
C14_Witness ==
    /\ max_workers = 2
    /\ Cardinality(Running) = 2
    /\ Pending # {}

\* C15: a check that times out or fails neither blocks nor cancels another
\* check: verify_all_urls always returns, and when it has returned every
\* submitted URL has had its own check run to its end and holds the result
\* of what its own request met, whatever the other checks met.
C15_ChecksIndependent ==
    /\ <>(vpc = "returned")
    /\ [](vpc = "returned" =>
            \A k \in 1..Len(futures) :
                /\ futures[k].state = "finished"
                /\ futures[k].collected
                /\ futures[k].url \in DOMAIN verified_results
                /\ verified_results[futures[k].url] =
                       IF futures[k].head # None
                       THEN VerifyUrl(futures[k].head[1])
                       ELSE FutureError(futures[k].exception[1]))

\* on a pool of one worker the first check timed out and the check queued
\* behind it ended with OK; verify_all_urls has returned
C15_Witness ==
    /\ vpc = "returned"
    /\ max_workers = 1
    /\ Len(futures) >= 2
    /\ futures[1].head = Some(Raised("Timeout", ""))
    /\ verified_results[futures[2].url].status = "OK"

----------------------------------------------------------------------------
(* Properties of the command line run.                                     *)

\* C16: a rendering session that was created is released before the process
\* exits, whether the run completes, an exception ends it or the user
\* cancels it; a process that exits without a session never had one.
C16_SessionReleased ==
    /\ cpc = "exited" => driver # "open"
    /\ driver = "quit" => cpc = "exited"
    /\ (cpc = "exited" /\ driver = "none")
        => exit_code = Some(1) /\ renders = <<>> /\ futures = <<>>
    /\ (cpc = "exited" /\ exit_code \in {Some(0), Some(130)}) => driver = "quit"

\* the user cancelled the run while checks were in flight, and the process
\* has exited with the session released
C16_Witness ==
    /\ cpc = "exited"
    /\ exit_code = Some(130)
    /\ driver = "quit"
    /\ renders # <<>>
    /\ futures # <<>>
    /\ vpc # "returned"

\* C17: when the positional URL does not start with 'http' the run exits
\* with status 1 and nothing else happens: no session is created, no course
\* is scanned, no page rendered and no liveness check submitted.
C17_InvalidUrlRejected ==
    ~StartsWithHttp(argv.url) =>
        /\ cpc \in {"start", "exited"}
        /\ cpc = "exited" => exit_code = Some(1)
        /\ driver = "none"
        /\ stack = <<>> /\ scans = <<>> /\ renders = <<>> /\ skips = {}
        /\ visited_pages = {} /\ all_results = <<>>
        /\ vpc = "idle" /\ futures = <<>> /\ submits = <<>>

\* the run was started with "not-a-url" and has exited
C17_Witness ==
    /\ argv.url = NotAUrl
    /\ cpc = "exited"

\* every page of the crawl rendered
AllRendered == \A i \in 1..Len(renders) : renders[i].ok

\* C18: with max_depth 1, a course of two lessons with different titles that
\* both link to https://example.com/ok, the first also to a course without
\* lessons: when every page renders and the verification has returned,
\* all_results holds exactly 3 entries, https://example.com/ok was submitted
\* and recorded exactly once, and exactly one recursive scan was started,
\* for the course link.
C18_EndToEnd ==
    (/\ web = TwoLessonWeb /\ argv.url = CourseA /\ max_depth = 1
     /\ vpc = "returned" /\ AllRendered)
    => /\ Len(all_results) = 3
       /\ Cardinality({all_results[i].display : i \in 1..Len(all_results)}) = 3
       /\ Count(submits, ExampleOk) = 1
       /\ Count(writes, ExampleOk) = 1
       /\ Len(scans) = 2
       /\ scans[1].invoked = {CourseXyz}
       /\ scans[2].course_url = CourseXyz /\ scans[2].depth = 1
       /\ skips = {}

\* the run of the scenario has reached the report with
\* https://example.com/ok verified OK
C18_Witness ==
    /\ web = TwoLessonWeb /\ argv.url = CourseA /\ max_depth = 1
    /\ cpc = "print"
    /\ vpc = "returned"
    /\ AllRendered
    /\ Len(renders) = 4
    /\ verified_results[ExampleOk].status = "OK"

\* C19: no liveness check is submitted or run before scan_course has
\* returned, all_results and visited_pages do not change once
\* verify_all_urls has been called, and with --no-verify verify_all_urls is
\* never called.
C19_StagesInOrder ==
    /\ []((vpc # "idle" \/ futures # <<>>) => (stack = <<>> /\ cpc # "scan"))
    /\ [][vpc # "idle" => (all_results' = all_results
                           /\ visited_pages' = visited_pages)]_vars
    /\ [](argv.no_verify => (vpc = "idle" /\ futures = <<>> /\ submits = <<>>))

\* a run with verification has exited normally after a crawl that found
\* links and a batch in which every check was collected
C19_Witness ==
    /\ cpc = "exited"
    /\ exit_code = Some(0)
    /\ ~argv.no_verify
    /\ all_results # <<>>
    /\ Len(writes) = Len(unique_urls)
    /\ vpc = "returned"

----------------------------------------------------------------------------
(* Properties of the extraction.                                           *)

\* C20: every entry of all_results has a target URL whose scheme is http or
\* https: an anchor with any other target produces no entry.
C20_HttpSchemeOnly ==
    \A i \in 1..Len(all_results) :
        Scheme(all_results[i].url) \in {<<"http">>, <<"http", "s">>}

\* C21: for the marked anchors whose target starts with '#/lessons/', in
\* their order of appearance, get_lesson_links yields one lesson each, whose
\* id is what follows the prefix in the target and whose URL is base_url +
\* '#/lessons/' + id; no other anchor yields a lesson.
C21_LessonLinksExact ==
    \A k \in 1..Len(scans) :
        scans[k].status # "error" =>
            LET nav == web[scans[k].base_url].nav
                kept == SelectSeq(nav, IsLessonAnchor)
                links == scans[k].lesson_links
            IN  /\ Len(links) = Len(kept)
                /\ \A i \in 1..Len(kept) :
                    LET href == kept[i].href[1]
                        suffix == SubSeq(href, 2, Len(href))
                    IN  /\ links[i].lesson_id = suffix
                        /\ links[i].url =
                               scans[k].base_url \o <<"#/lessons/">> \o suffix

----------------------------------------------------------------------------
(* Properties of the order and the state of the traversal.                 *)

\* C22: an invocation starts a recursive scan only after it has processed
\* every one of its lessons; a recursive scan runs one level below its
\* caller; and the scan of one candidate, with everything it starts, has
\* returned before the scan of the next candidate starts.
C22_DepthFirstAfterLessons ==
    /\ \A j \in 2..Len(stack) :
        /\ stack[j].pc = "recurse"
        /\ stack[j-1].depth = stack[j].depth + 1
        /\ stack[j-1].parent = stack[j].id
    /\ \A c \in 1..Len(scans) :
        scans[c].parent # 0 =>
            LET p == scans[c].parent
            IN  /\ scans[c].depth = scans[p].depth + 1
                /\ Cardinality(LessonRenders(p)) = Len(scans[p].lesson_links)
                /\ \A i \in LessonRenders(p) : renders[i].ok
                /\ \A i, j \in 1..Len(renders) :
                    (renders[i].scan = p /\ renders[j].scan = c) => i < j
    /\ \A c, d \in 1..Len(scans) :
        (c < d /\ scans[c].parent # 0 /\ scans[c].parent = scans[d].parent)
            => /\ \A e \in c..(d-1) : scans[e].status # "active"
               /\ \A i, j \in 1..Len(renders) :
                    (renders[i].scan \in c..(d-1) /\ renders[j].scan = d) => i < j

\* an invocation has scanned two candidates one after the other, the first
\* of which rendered its lessons and went through its own loop over
\* external_courses
C22_Witness ==
    \E c, d \in 1..Len(scans) :
        /\ c < d
        /\ scans[c].parent # 0
        /\ scans[c].parent = scans[d].parent
        /\ LessonRenders(c) # {}
        /\ scans[c].looped
        /\ scans[d].status = "done"

\* the sequence s is the beginning of the sequence t
IsPrefix(s, t) == Len(s) <= Len(t) /\ SubSeq(t, 1, Len(s)) = s

\* C23: all_results is append-only: at every step of a crawl the old value
\* of all_results is a prefix of the new one.
C23_AppendOnly == [][IsPrefix(all_results, all_results')]_vars

\* a crawl has ended with entries of two invocations in all_results and an
\* extracted link that was suppressed as a duplicate
C23_Witness ==
    /\ stack = <<>>
    /\ Len(all_results) >= 3
    /\ Len(scans) >= 2
    /\ \E e \in extracted : \A i \in 1..Len(all_results) : all_results[i] # e
    /\ \E k \in 2..Len(scans) : LessonRenders(k) # {}

\* C24: visited_pages only grows during a crawl, and every element of it
\* is free of a fragment: it holds no '#'.
C24_VisitedGrowsFragmentFree ==
    /\ [][visited_pages \subseteq visited_pages']_vars
    /\ [](\A u \in visited_pages : Range(u) \cap HashSyms = {})

\* two courses were marked visited, one of them called with a URL that
\* carries a fragment, and a later call returned at the guard
C24_Witness ==
    /\ Cardinality(visited_pages) >= 2
    /\ \E k \in 1..Len(scans) :
          /\ Range(scans[k].course_url) \cap HashSyms # {}
          /\ scans[k].base_url \in visited_pages
          /\ scans[k].depth >= 1
    /\ skips # {}

\* the base URLs of the courses the lessons of the course at `base` link to
LinkedFrom(w, base) ==
    LET lessons == GetLessonLinks(PageSource(w, base).anchors, base)
        Urls(i) == LET soup == PageSource(w, lessons[i].url)
                   IN  ExtractUrlsFromPage(soup, GetLessonTitle(soup))
    IN  {GetBaseUrl(u.url) :
            u \in {e \in UNION {Range(Urls(i)) : i \in 1..Len(lessons)} :
                      IsSimilarPage(e.url)}}

\* the base URLs a chain of at most n course links from `start` leads to
RECURSIVE ReachableWithin(_, _, _)
ReachableWithin(w, start, n) ==
    IF n = 0 THEN {start}
    ELSE LET near == ReachableWithin(w, start, n - 1)
         IN  near \cup UNION {LinkedFrom(w, b) : b \in near}

\* C25: when no render fails, every course a chain of at most max_depth
\* course links leads to from the initial course has been scanned when the
\* crawl returns: its lessons rendered and their links accumulated,
\* whatever the order the candidates were iterated in.
C25_ReachableScanned ==
    (stack = <<>> /\ AllRendered) =>
        \A b \in ReachableWithin(web, GetBaseUrl(course_url0), max_depth) :
            \E k \in 1..Len(scans) :
                /\ scans[k].base_url = b
                /\ Cardinality(LessonRenders(k)) = Len(scans[k].lesson_links)

\* the candidates the loop over the links of a rendered lesson page collects
\* in the invocation k
CollectedOn(url, k) ==
    LET soup == PageSource(web, url)
    IN  ExternalOf(ExtractUrlsFromPage(soup, GetLessonTitle(soup)),
                   scans[k].depth, max_depth)

\* C26: when the scan of a course fails part-way nothing is rolled back:
\* the links of the lessons rendered before the failure stay in
\* all_results, the base URL of the course stays in visited_pages, and the
\* invocation scans none of the candidates it had collected.
C26_NoRollback ==
    \A i \in 1..Len(renders) :
        ~renders[i].ok =>
            LET k == renders[i].scan
            IN  /\ scans[k].base_url \in visited_pages
                /\ \A j \in LessonRenders(k) :
                      renders[j].ok =>
                          \A e \in LinksOn(renders[j].url) :
                              \E r \in 1..Len(all_results) :
                                  all_results[r].display = e.display
                /\ ~scans[k].looped
                /\ scans[k].invoked = {}
                /\ \A c \in 1..Len(scans) : scans[c].parent # k
                /\ \A f \in 1..Len(stack) :
                      stack[f].id = k => stack[f].pc # "recurse"

\* a crawl has ended in which the scan of a course failed at its second
\* lesson after its first lesson gave entries and candidates
C26_Witness ==
    /\ stack = <<>>
    /\ \E i \in 1..Len(renders) :
          /\ ~renders[i].ok
          /\ renders[i].kind = "lesson"
          /\ \E j \in LessonRenders(renders[i].scan) :
                /\ j < i
                /\ renders[j].ok
                /\ LinksOn(renders[j].url) # {}
                /\ CollectedOn(renders[j].url, renders[i].scan) # {}
                /\ \E c \in CollectedOn(renders[j].url, renders[i].scan) :
                      GetBaseUrl(c) \notin visited_pages

\* C27: once verify_all_urls has returned, the URL of every entry of
\* all_results is a key of verified_results with a status among OK,
\* WARNING, BROKEN and ERROR, so print_results never falls back to the
\* UNKNOWN verification, its four counters sum to len(all_results) and the
\* last counter counts the entries with status ERROR only.
C27_EveryEntryVerified ==
    vpc = "returned" =>
        /\ \A i \in 1..Len(all_results) :
              /\ all_results[i].url \in DOMAIN verified_results
              /\ verified_results[all_results[i].url].status
                    \in {"OK", "WARNING", "BROKEN", "ERROR"}
              /\ Get(verified_results, all_results[i].url) # NotVerified
        /\ LET counts == PrintResults(all_results, verified_results)
           IN  /\ counts.working_count + counts.warning_count
                     + counts.broken_count + counts.error_count = Len(all_results)
               /\ counts.error_count =
                     Cardinality({i \in 1..Len(all_results) :
                         Get(verified_results, all_results[i].url).status = "ERROR"})

\* verify_all_urls has returned for three entries, two of them with the
\* same URL found accessible and one whose check ended with an exception
C27_Witness ==
    /\ vpc = "returned"
    /\ Len(all_results) = 3
    /\ Len(unique_urls) = 2
    /\ \E k \in 1..Len(futures) : futures[k].exception # None
    /\ LET counts == PrintResults(all_results, verified_results)
       IN  counts.working_count = 2 /\ counts.error_count = 1

============================================================================
